---- MODULE Spec2Model ----
(***************************************************************************)
(* Model of amortize_schedule (src/heloc_streamlit_app.py, lines 13-47),   *)
(* the amortization engine of the HELOC calculator.                        *)
(*                                                                         *)
(* Numbers.  The program computes with Python floats (binary64): every     *)
(* multiplication and division rounds its exact result to the nearest      *)
(* representable value.  The model keeps that behaviour with a smaller     *)
(* number system: a value v is the integer v * Scale, so the representable *)
(* values are the multiples of 1/Scale, and every multiplication, division *)
(* and power rounds its exact result to the nearest representable value,   *)
(* ties to even.  Additions and subtractions of representable values are   *)
(* exact.  Nothing is rounded to cents, because the code rounds nothing to *)
(* cents.  Money is in dollars, rates are fractions (0.085 is 8.5 %),      *)
(* years are years.                                                        *)
(***************************************************************************)
EXTENDS Integers, Sequences, FiniteSets

\* representable values per unit: the precision of `float`
Scale == 10000

\* largest whole number of years among the inputs
MaxYears == 3

VARIABLES principal, apr, years, start_date,
          pc, n, r, factor, monthly, total_paid, total_interest,
          balance, i, rows, ret

vars == <<principal, apr, years, start_date,
          pc, n, r, factor, monthly, total_paid, total_interest,
          balance, i, rows, ret>>

inputs == <<principal, apr, years, start_date>>

----------------------------------------------------------------------------
(* float arithmetic *)

Abs(x) == IF x < 0 THEN -x ELSE x

Max(a, b) == IF a >= b THEN a ELSE b

Min(a, b) == IF a <= b THEN a ELSE b

Sign(x) == IF x < 0 THEN -1 ELSE 1

\* q + rem/d rounded to the nearest integer, ties to even (0 <= rem < d)
RoundQ(q, rem, d) ==
    IF 2 * rem > d \/ (2 * rem = d /\ q % 2 = 1) THEN q + 1 ELSE q

\* a / k for a whole number k > 0, rounded  (apr / 12.0, principal / n)
DivInt(a, k) ==
    Sign(a) * RoundQ(Abs(a) \div k, Abs(a) % k, k)

\* a * b, rounded; the product is formed in two halves to stay in range
MulFix(a, b) ==
    LET x  == Abs(a)
        y  == Abs(b)
        xh == x \div Scale
        xl == x % Scale
        yh == y \div Scale
        yl == y % Scale
        q  == xh * yh * Scale + xh * yl + xl * yh + (xl * yl) \div Scale
    IN  Sign(a) * Sign(b) * RoundQ(q, (xl * yl) % Scale, Scale)

\* the digits of rem/d after the point, one decimal digit at a time
RECURSIVE LongDiv(_, _, _, _)
LongDiv(q, rem, d, unit) ==
    IF unit = 1 THEN <<q, rem>>
    ELSE LongDiv(q * 10 + (rem * 10) \div d, (rem * 10) % d, d, unit \div 10)

\* a / b, rounded (b # 0)
DivFix(a, b) ==
    LET x  == Abs(a)
        y  == Abs(b)
        qr == LongDiv(x \div y, x % y, y, Scale)
    IN  Sign(a) * Sign(b) * RoundQ(qr[1], qr[2], y)

\* int(x): truncation toward zero
IntTrunc(x) == Sign(x) * (Abs(x) \div Scale)

\* the exact product of a little-endian base-Scale numeral and k
RECURSIVE MulLimbs(_, _, _)
MulLimbs(s, k, carry) ==
    IF s = <<>>
    THEN IF carry = 0 THEN <<>>
         ELSE <<carry % Scale>> \o MulLimbs(<<>>, k, carry \div Scale)
    ELSE LET t == Head(s) * k + carry
         IN  <<t % Scale>> \o MulLimbs(Tail(s), k, t \div Scale)

\* the exact numeral of x^k
RECURSIVE PowLimbs(_, _)
PowLimbs(x, k) ==
    IF k = 0 THEN <<1>> ELSE MulLimbs(PowLimbs(x, k - 1), x, 0)

RECURSIVE LimbsValue(_)
LimbsValue(s) ==
    IF s = <<>> THEN 0 ELSE Head(s) + Scale * LimbsValue(Tail(s))

\* x ** k for an integer k >= 1 and x >= 0: the exact power, rounded once
PowFix(x, k) ==
    LET p    == PowLimbs(x, k)
        drop == k - 1
        kept == IF Len(p) > drop THEN SubSeq(p, drop + 1, Len(p)) ELSE <<>>
        q    == LimbsValue(kept)
        top  == IF drop >= 1 /\ Len(p) >= drop THEN p[drop] ELSE 0
        low  == \E j \in 1..(drop - 1) : j <= Len(p) /\ p[j] # 0
        half == Scale \div 2
    IN  IF top > half \/ (top = half /\ (low \/ q % 2 = 1)) THEN q + 1 ELSE q

----------------------------------------------------------------------------
(* calendar dates *)

NoDate == <<0, 0, 0>>

IsLeap(y) == (y % 4 = 0 /\ y % 100 # 0) \/ y % 400 = 0

DaysInMonth(y, m) ==
    IF m = 2 THEN (IF IsLeap(y) THEN 29 ELSE 28)
    ELSE IF m \in {4, 6, 9, 11} THEN 30 ELSE 31

\* d + pd.DateOffset(months=k): same day of the month, clamped to its end
AddMonths(d, k) ==
    LET t == d[1] * 12 + (d[2] - 1) + k
        y == t \div 12
        m == (t % 12) + 1
    IN  <<y, m, Min(d[3], DaysInMonth(y, m))>>

\* the offset counted from i instead of i - 1
RowDate_NextMonth(start, k) ==
    IF start # NoDate THEN AddMonths(start, k) ELSE NoDate

\* the date column of row number k
RowDate(start, k) ==
    IF start # NoDate THEN AddMonths(start, k - 1) ELSE NoDate

----------------------------------------------------------------------------
(* amortize_schedule *)

Principals == {-1 * Scale, 0, Scale \div 10, Scale, 100 * Scale}

AprValues == {-1200, 0, 1, 100, 850, 2800, 9900}

YearValues == {-1 * Scale, 0, Scale \div 20, Scale + Scale \div 20,
               MaxYears * Scale + Scale \div 2}
              \cup {y * Scale : y \in 1..MaxYears}

StartDates == {NoDate, <<2024, 1, 31>>, <<2023, 11, 15>>}

NoRet == [monthly |-> 0, total_paid |-> 0, total_interest |-> 0,
          schedule |-> <<>>]

\* n = int(years * 12)
Periods(y) == IntTrunc(y * 12)

\* the guard with principal < 0 in place of principal <= 0
IsDegenerate_Strict(np, p) == np <= 0 \/ p < 0

\* if n <= 0 or principal <= 0
IsDegenerate(np, p) == np <= 0 \/ p <= 0

\* r = apr / 12.0
PeriodicRate(a) == DivInt(a, 12)

\* factor = (1 + r) ** n
Factor(rate, np) == PowFix(Scale + rate, np)

\* monthly = principal * (r * factor) / (factor - 1)
AnnuityPayment(p, rate, f) == DivFix(MulFix(p, MulFix(rate, f)), f - Scale)

\* the payment of lines 20 and 35 as a function of the arguments
Payment(p, a, np) ==
    IF a = 0 THEN DivInt(p, np)
    ELSE AnnuityPayment(p, PeriodicRate(a), Factor(PeriodicRate(a), np))

\* line 35 divides by factor - 1
PaymentDefined(a, np) ==
    a = 0 \/ Factor(PeriodicRate(a), np) # Scale

Row(k, date, pay, princ, int, bal) ==
    [month |-> k, date |-> date, payment |-> pay, principal |-> princ,
     interest |-> int, balance |-> bal]

Init ==
    /\ principal \in Principals
    /\ apr \in AprValues
    /\ years \in YearValues
    /\ start_date \in StartDates
    /\ pc = "called"
    /\ n = 0
    /\ r = 0
    /\ factor = 0
    /\ monthly = 0
    /\ total_paid = 0
    /\ total_interest = 0
    /\ balance = 0
    /\ i = 0
    /\ rows = <<>>
    /\ ret = NoRet

\* lines 15-18: no periods or nothing borrowed
ReturnEmpty ==
    /\ pc = "called"
    /\ IsDegenerate(Periods(years), principal)
    /\ n' = Periods(years)
    /\ ret' = [monthly |-> 0, total_paid |-> 0, total_interest |-> 0,
               schedule |-> <<>>]
    /\ pc' = "returned"
    /\ UNCHANGED <<inputs, r, factor, monthly, total_paid, total_interest,
                   balance, i, rows>>

\* lines 19-24: the zero-rate branch up to its loop
ZeroRateInit ==
    /\ pc = "called"
    /\ ~IsDegenerate(Periods(years), principal)
    /\ apr = 0
    /\ n' = Periods(years)
    /\ monthly' = DivInt(principal, n')
    /\ total_paid' = monthly' * n'
    /\ total_interest' = total_paid' - principal
    /\ balance' = principal
    /\ rows' = <<>>
    /\ i' = 1
    /\ pc' = "zero_loop"
    /\ UNCHANGED <<inputs, r, factor, ret>>

\* lines 25-30: one iteration of the zero-rate loop
ZeroRateRow ==
    /\ pc = "zero_loop"
    /\ i <= n
    /\ LET principal_paid == monthly
           interest_paid == 0
       IN  /\ balance' = balance - principal_paid
           /\ rows' = Append(rows, Row(i, RowDate(start_date, i), monthly,
                                       principal_paid, interest_paid,
                                       Max(balance', 0)))
    /\ i' = i + 1
    /\ UNCHANGED <<inputs, pc, n, r, factor, monthly, total_paid,
                   total_interest, ret>>

\* lines 31-32
ZeroRateReturn ==
    /\ pc = "zero_loop"
    /\ i > n
    /\ ret' = [monthly |-> monthly, total_paid |-> total_paid,
               total_interest |-> total_interest, schedule |-> rows]
    /\ pc' = "returned"
    /\ UNCHANGED <<inputs, n, r, factor, monthly, total_paid,
                   total_interest, balance, i, rows>>

\* lines 33-39: the annuity branch up to its loop; the division of line 35
\* raises ZeroDivisionError when factor - 1 is zero
AmortInit ==
    /\ pc = "called"
    /\ ~IsDegenerate(Periods(years), principal)
    /\ apr # 0
    /\ n' = Periods(years)
    /\ r' = PeriodicRate(apr)
    /\ factor' = Factor(r', n')
    /\ IF factor' - Scale = 0
       THEN /\ pc' = "raised"
            /\ UNCHANGED <<monthly, total_paid, total_interest, balance, i,
                           rows>>
       ELSE /\ monthly' = AnnuityPayment(principal, r', factor')
            /\ total_paid' = monthly' * n'
            /\ total_interest' = total_paid' - principal
            /\ balance' = principal
            /\ rows' = <<>>
            /\ i' = 1
            /\ pc' = "amort_loop"
    /\ UNCHANGED <<inputs, ret>>

\* lines 40-45: one iteration of the annuity loop
AmortRow ==
    /\ pc = "amort_loop"
    /\ i <= n
    /\ LET interest_paid == MulFix(balance, r)
           principal_paid == monthly - interest_paid
       IN  /\ balance' = balance - principal_paid
           /\ rows' = Append(rows, Row(i, RowDate(start_date, i), monthly,
                                       principal_paid, interest_paid,
                                       Max(balance', 0)))
    /\ i' = i + 1
    /\ UNCHANGED <<inputs, pc, n, r, factor, monthly, total_paid,
                   total_interest, ret>>

\* lines 46-47
AmortReturn ==
    /\ pc = "amort_loop"
    /\ i > n
    /\ ret' = [monthly |-> monthly, total_paid |-> total_paid,
               total_interest |-> total_interest, schedule |-> rows]
    /\ pc' = "returned"
    /\ UNCHANGED <<inputs, n, r, factor, monthly, total_paid,
                   total_interest, balance, i, rows>>

Next ==
    \/ ReturnEmpty
    \/ ZeroRateInit
    \/ ZeroRateRow
    \/ ZeroRateReturn
    \/ AmortInit
    \/ AmortRow
    \/ AmortReturn

Spec == Init /\ [][Next]_vars

----------------------------------------------------------------------------
(* properties *)

\* one cent
Cent == Scale \div 100

RECURSIVE SumPayment(_)
SumPayment(s) ==
    IF s = <<>> THEN 0 ELSE Head(s).payment + SumPayment(Tail(s))

RECURSIVE SumPrincipal(_)
SumPrincipal(s) ==
    IF s = <<>> THEN 0 ELSE Head(s).principal + SumPrincipal(Tail(s))

RECURSIVE SumInterest(_)
SumInterest(s) ==
    IF s = <<>> THEN 0 ELSE Head(s).interest + SumInterest(Tail(s))

\* the balance shown before row k: the previous row's, or the principal
BalanceBefore(s, k) == IF k = 1 THEN principal ELSE s[k - 1].balance

Returned == pc = "returned"

\* C1: for principal > 0 and years >= 1 the principal column of the returned
\* schedule sums to the principal within n * 0.01, and the last row's
\* balance is 0.
C1_SumLaw ==
    (Returned /\ principal > 0 /\ years >= Scale) =>
        /\ Abs(SumPrincipal(ret.schedule) - principal) <= n * Cent
        /\ ret.schedule[Len(ret.schedule)].balance = 0

\* C2: every row's balance is >= 0 and is max(0, balance_before - principal),
\* and its interest is balance_before * periodic_rate, balance_before being
\* the balance shown in the previous row (the principal for row 1).
C2_Recurrence ==
    \A k \in 1..Len(rows) :
        /\ rows[k].balance >= 0
        /\ rows[k].balance = Max(0, BalanceBefore(rows, k) - rows[k].principal)
        /\ rows[k].interest = MulFix(BalanceBefore(rows, k), PeriodicRate(apr))

\* C3: with principal <= 0 or int(years * 12) <= 0 the call raises nothing,
\* builds no row and returns (0, 0, 0, empty schedule), whatever apr is.
C3_EmptyOnDegenerate ==
    (principal <= 0 \/ IntTrunc(years * 12) <= 0) =>
        /\ pc \in {"called", "returned"}
        /\ rows = <<>>
        /\ Returned => ret = [monthly |-> 0, total_paid |-> 0,
                              total_interest |-> 0, schedule |-> <<>>]

\* a degenerate call has returned: years > 0 truncating to no period, a
\* principal that is not positive, a non-zero apr
C3_Witness ==
    /\ Returned
    /\ apr # 0
    /\ \/ (years > 0 /\ IntTrunc(years * 12) = 0 /\ principal > 0)
       \/ (principal <= 0 /\ IntTrunc(years * 12) >= 12)

\* C4: no row is emitted after a row whose balance is 0, and the schedule
\* has at most n rows.
C4_EarlyStop ==
    /\ \A k \in 1..(Len(rows) - 1) : rows[k].balance > 0
    /\ Len(rows) <= n

\* C5: a row's principal never exceeds the balance outstanding before it;
\* when payment - interest would exceed that balance the principal is the
\* balance and the payment is interest + principal.
C5_PrincipalClamped ==
    \A k \in 1..Len(rows) :
        /\ rows[k].principal <= BalanceBefore(rows, k)
        /\ monthly - rows[k].interest > BalanceBefore(rows, k) =>
               /\ rows[k].principal = BalanceBefore(rows, k)
               /\ rows[k].payment = rows[k].interest + rows[k].principal

\* C6: for apr = 0, principal > 0 and years >= 1 the monthly payment is
\* principal / (years * 12), the total interest is 0, and the schedule has
\* exactly years * 12 rows, each with interest 0 and principal = monthly.
C6_ZeroRate ==
    (Returned /\ apr = 0 /\ principal > 0 /\ years >= Scale) =>
        /\ ret.monthly = DivFix(principal, years * 12)
        /\ ret.total_interest = 0
        /\ Len(ret.schedule) * Scale = years * 12
        /\ \A k \in 1..Len(ret.schedule) :
               /\ ret.schedule[k].interest = 0
               /\ ret.schedule[k].principal = ret.monthly

\* C7: for principal > 0, a rate in [0, 100) percent and a term of at least
\* one period, a payment is computed, it is strictly positive, no smaller
\* rate gives a larger payment (the zero rate included) and no smaller
\* principal gives a larger payment.
C7_PaymentPositiveMonotone ==
    (principal > 0 /\ apr >= 0 /\ apr < Scale /\ Periods(years) >= 1) =>
        /\ pc # "raised"
        /\ Returned =>
               /\ ret.monthly > 0
               /\ \A a2 \in AprValues :
                      (a2 >= apr /\ a2 < Scale /\ PaymentDefined(a2, n)) =>
                          Payment(principal, a2, n) >= ret.monthly
               /\ \A p2 \in Principals :
                      (p2 >= principal /\ PaymentDefined(apr, n)) =>
                          Payment(p2, apr, n) >= ret.monthly

\* C8: the returned monthly payment is the payment of row 1, the returned
\* total interest is the sum of the interest column and the returned total
\* paid is the sum of the payment column.
C8_HeadlineIsReduction ==
    (Returned /\ ret.schedule # <<>>) =>
        /\ ret.monthly = ret.schedule[1].payment
        /\ ret.total_interest = SumInterest(ret.schedule)
        /\ ret.total_paid = SumPayment(ret.schedule)

\* C9: every payment, principal, interest and balance of a row is a whole
\* number of cents.
C9_WholeCents ==
    \A k \in 1..Len(rows) :
        /\ rows[k].payment % Cent = 0
        /\ rows[k].principal % Cent = 0
        /\ rows[k].interest % Cent = 0
        /\ rows[k].balance % Cent = 0

\* the calendar month of a date, counted from year 0
MonthIndex(d) == d[1] * 12 + d[2]

\* row number k of s carries period k and the k-th date
PeriodAndDate(s, k) ==
    /\ s[k].month = k
    /\ IF start_date = NoDate THEN s[k].date = NoDate
       ELSE /\ s[k].date[2] \in 1..12
            /\ MonthIndex(s[k].date) = MonthIndex(start_date) + (k - 1)
            /\ s[k].date[3] = Min(start_date[3],
                                  DaysInMonth(s[k].date[1], s[k].date[2]))

\* C10: for principal > 0 and n >= 1 the rows carry the periods 1, 2, ...,
\* n in this order, and row k carries start_date + (k - 1) calendar months
\* when a start_date is given.
C10_PeriodOrder ==
    /\ \A k \in 1..Len(rows) : PeriodAndDate(rows, k)
    /\ (Returned /\ principal > 0 /\ IntTrunc(years * 12) >= 1) =>
           /\ Len(ret.schedule) = IntTrunc(years * 12)
           /\ \A k \in 1..Len(ret.schedule) : PeriodAndDate(ret.schedule, k)

\* a schedule of more than a year has been returned, starting on the 31st
C10_Witness ==
    /\ Returned
    /\ Len(ret.schedule) > 12
    /\ start_date[3] = 31
    /\ ret.schedule[2].date[3] = 29

====
